---- MODULE Spec2Model ----
(***************************************************************************)
(* Transport and conversation-state layer of the two agents:               *)
(*   NodeAgent            (src/agents/base_example/node.py)     streaming  *)
(*   MarketSentimentAgent (src/agents/market_sentiment/agent.py)  polling  *)
(* Each coroutine is a process whose pc names the await it is suspended    *)
(* at; one action runs the code from one await to the next.                *)
(***************************************************************************)
EXTENDS Integers, Sequences, FiniteSets, TLC

\* ------------------------------------------------------------------ bounds
MaxPumps    == 2   \* _handle_messages tasks ever created
MaxConns    == 2   \* connections the substrate ever accepts
MaxFrames   == 2   \* "message" frames the substrate ever delivers
MaxHandlers == 3   \* on_message registrations ever made
MaxCalls    == 2   \* calls of one unregister token
MaxStarts   == 2   \* start() calls on the streaming agent
MaxStops    == 2   \* stop() calls on the streaming agent
MaxMsgs     == 6   \* messages the polling substrate ever stores
MaxPollStarts == 2 \* start() calls on the polling agent
MaxMalformed == 1  \* stored records that do not parse into a Message
MaxSends    == 1   \* send_message calls

None     == 0
Handlers == {"h1", "h2"}
Pumps    == 1..MaxPumps
Conns    == 1..MaxConns

VARIABLES
  \* ---- NodeAgent
  agent_id,          \* None or the configured id
  websocket,         \* self._websocket: None or a connection
  message_handlers,  \* self._message_handlers
  running,           \* self._running
  caller,            \* the coroutine calling start()/stop(): [pc, conn]
  pumps,             \* the _handle_messages tasks
  conns,             \* substrate side of every connection
  tokens,            \* the lambdas on_message returned: the handler each closes over
  calls,             \* how many times each token was called
  token_error,       \* whether the last token call raised ValueError
  frames,            \* "message" frames delivered so far
  registered,        \* register frames the substrate received, per connection
  life,              \* what the caller last did: "new", "started", "failed", "stopped"
  starts, stops,
  \* ---- MarketSentimentAgent
  conversation_history,    \* self.conversation_history: a dict from peer to list of turns
  last_message_timestamp,  \* self.last_message_timestamp, the watermark
  session,                 \* self._session: None or the open ClientSession
  poll,                    \* self._poll_task, the _start_polling task and its locals
  store,                   \* the substrate's stored messages, in arrival order
  dispatched,              \* per stored message, the number of handle_message calls
  poll_starts,             \* start() calls on the polling agent
  \* ---- NodeAgent.send_message
  sender,                  \* the coroutine calling send_message: [pc, conn, result, n];
                           \* result is "none", "sent" or the exception raised
  outbox                   \* "message" frames the substrate received from the agent

nodeVars == <<agent_id, websocket, message_handlers, running, caller, pumps, conns,
              tokens, calls, token_error, frames, registered, life, starts, stops>>

pollVars == <<conversation_history, last_message_timestamp, session, poll, store,
              dispatched, poll_starts>>

sendVars == <<sender, outbox>>

vars == <<nodeVars, pollVars, sendVars>>

NoPump == [pc |-> "none", conn |-> None, msg |-> None, idx |-> 0, dirty |-> FALSE]

NoSend == [pc |-> "idle", conn |-> None, result |-> "none", n |-> 0]

NodeInit ==
  /\ agent_id \in {None, 1}
  /\ websocket = None
  /\ message_handlers = <<>>
  /\ running = FALSE
  /\ caller = [pc |-> "idle", conn |-> None]
  /\ pumps = [p \in Pumps |-> NoPump]
  /\ conns = [c \in Conns |-> "unopened"]
  /\ tokens = <<>>
  /\ calls = <<>>
  /\ token_error = FALSE
  /\ frames = 0
  /\ registered = [c \in Conns |-> 0]
  /\ life = "new"
  /\ starts = 0
  /\ stops = 0
  /\ sender = NoSend
  /\ outbox = 0

\* ----------------------------------------------------------------- helpers

\* list.remove(h): the list without the first occurrence of h
RECURSIVE RemoveFirst(_, _)
RemoveFirst(s, h) ==
  IF s = <<>> THEN <<>>
  ELSE IF Head(s) = h THEN Tail(s)
  ELSE <<Head(s)>> \o RemoveFirst(Tail(s), h)

InList(s, h) == \E i \in 1..Len(s) : s[i] = h

FreeConn == CHOOSE c \in Conns : conns[c] = "unopened" /\ \A d \in Conns : d < c => conns[d] # "unopened"
HasFreeConn == \E c \in Conns : conns[c] = "unopened"
FreePump(ps) == CHOOSE p \in Pumps : ps[p].pc = "none" /\ \A q \in Pumps : q < p => ps[q].pc # "none"
HasFreePump == \E p \in Pumps : pumps[p].pc = "none"

\* asyncio.create_task(self._handle_messages()): a new task, not yet run
CreateTask(ps) == [ps EXCEPT ![FreePump(ps)] = [NoPump EXCEPT !.pc = "new"]]

\* The head of _handle_messages' loop up to its next await: the while test and
\* the call of recv() on the connection self._websocket names at that moment.
\* recv() raises RuntimeError when another coroutine is already waiting in it;
\* the except Exception branch then sleeps one second.
WhileRecv(p, run, ws, ps) ==
  IF run /\ ws # None
  THEN IF \E q \in Pumps : q # p /\ ps[q].pc = "recv" /\ ps[q].conn = ws
       THEN [NoPump EXCEPT !.pc = "sleep1"]
       ELSE [NoPump EXCEPT !.pc = "recv", !.conn = ws]
  ELSE [NoPump EXCEPT !.pc = "done"]

\* handle_message's for loop from the point where it asks the list iterator
\* for the next handler, after `taken` handlers were taken: either the next
\* handler is awaited, or handle_message returns and the pump loops.
NextHandler(p, taken, ps) ==
  IF taken < Len(message_handlers)
  THEN [ps[p] EXCEPT !.pc = "handler", !.conn = None, !.idx = taken + 1]
  ELSE WhileRecv(p, running, websocket, ps)

\* A task asyncio.create_task made is run at the event loop's next iteration,
\* before any suspended coroutine is resumed: while a pump is "new", only
\* code that runs without being resumed (the caller's next call, the network)
\* can come first.
NoTaskReady == \A p \in Pumps : pumps[p].pc # "new"

\* ------------------------------------------------------- NodeAgent actions

\* start(): self._running = True, then _connect() up to `await websockets.connect`
Start ==
  /\ caller.pc = "idle"
  /\ life # "started"
  /\ starts < MaxStarts
  /\ starts' = starts + 1
  /\ running' = TRUE
  /\ caller' = [pc |-> "connecting", conn |-> None]
  /\ UNCHANGED <<pollVars, sendVars>>
  /\ UNCHANGED <<agent_id, websocket, message_handlers, pumps, conns, tokens, calls,
                 token_error, frames, registered, life, stops>>

\* mutant: _connect swallows the connect error and start() returns normally
StartConnectFailsSilently ==
  /\ NoTaskReady
  /\ caller.pc = "connecting"
  /\ caller' = [pc |-> "idle", conn |-> None]
  /\ life' = "started"
  /\ UNCHANGED <<pollVars, sendVars>>
  /\ UNCHANGED <<agent_id, websocket, message_handlers, running, pumps, conns, tokens,
                 calls, token_error, frames, registered, starts, stops>>

\* websockets.connect fails inside start(): _connect re-raises, start re-raises
StartConnectFails ==
  /\ NoTaskReady
  /\ caller.pc = "connecting"
  /\ caller' = [pc |-> "idle", conn |-> None]
  /\ life' = "failed"
  /\ UNCHANGED <<pollVars, sendVars>>
  /\ UNCHANGED <<agent_id, websocket, message_handlers, running, pumps, conns, tokens,
                 calls, token_error, frames, registered, starts, stops>>

\* websockets.connect succeeds inside start(): the handle is assigned; with an
\* agent id the register send is awaited, otherwise the pump task is created
StartConnectOk ==
  /\ NoTaskReady
  /\ caller.pc = "connecting"
  /\ HasFreeConn
  /\ HasFreePump
  /\ websocket' = FreeConn
  /\ conns' = [conns EXCEPT ![FreeConn] = "open"]
  /\ IF agent_id # None
     THEN /\ caller' = [pc |-> "registering", conn |-> FreeConn]
          /\ UNCHANGED <<pumps, life>>
     ELSE /\ caller' = [pc |-> "idle", conn |-> None]
          /\ pumps' = CreateTask(pumps)
          /\ life' = "started"
  /\ UNCHANGED <<pollVars, sendVars>>
  /\ UNCHANGED <<agent_id, message_handlers, running, tokens, calls, token_error,
                 frames, registered, starts, stops>>

\* the register send of start() completes: it raises if the connection closed
StartRegisterDone ==
  /\ NoTaskReady
  /\ caller.pc = "registering"
  /\ caller' = [pc |-> "idle", conn |-> None]
  /\ IF conns[caller.conn] = "open"
     THEN /\ registered' = [registered EXCEPT ![caller.conn] = @ + 1]
          /\ pumps' = CreateTask(pumps)
          /\ life' = "started"
     ELSE /\ life' = "failed"
          /\ UNCHANGED <<registered, pumps>>
  /\ UNCHANGED <<pollVars, sendVars>>
  /\ UNCHANGED <<agent_id, websocket, message_handlers, running, conns, tokens, calls,
                 token_error, frames, starts, stops>>

\* stop(): self._running = False; with a connection, close() is awaited
StopBegin ==
  /\ caller.pc = "idle"
  /\ life # "new"
  /\ stops < MaxStops
  /\ stops' = stops + 1
  /\ running' = FALSE
  /\ IF websocket # None
     THEN /\ conns' = [conns EXCEPT ![websocket] = "closed"]
          /\ caller' = [pc |-> "closing", conn |-> websocket]
          /\ UNCHANGED life
     ELSE /\ life' = "stopped"
          /\ UNCHANGED <<conns, caller>>
  /\ UNCHANGED <<pollVars, sendVars>>
  /\ UNCHANGED <<agent_id, websocket, message_handlers, pumps, tokens, calls,
                 token_error, frames, registered, starts>>

\* stop() after close() returned: self._websocket = None
StopEnd ==
  /\ NoTaskReady
  /\ caller.pc = "closing"
  /\ websocket' = None
  /\ caller' = [pc |-> "idle", conn |-> None]
  /\ life' = "stopped"
  /\ UNCHANGED <<pollVars, sendVars>>
  /\ UNCHANGED <<agent_id, message_handlers, running, pumps, conns, tokens, calls,
                 token_error, frames, registered, starts, stops>>

\* a created _handle_messages task runs for the first time
PumpStart(p) ==
  /\ pumps[p].pc = "new"
  /\ pumps' = [pumps EXCEPT ![p] = WhileRecv(p, running, websocket, pumps)]
  /\ UNCHANGED <<pollVars, sendVars>>
  /\ UNCHANGED <<agent_id, websocket, message_handlers, running, caller, conns, tokens,
                 calls, token_error, frames, registered, life, starts, stops>>

\* recv() returns a frame that is no "message" frame: nothing to do, loop
RecvOther(p) ==
  /\ NoTaskReady
  /\ pumps[p].pc = "recv"
  /\ conns[pumps[p].conn] = "open"
  /\ pumps' = [pumps EXCEPT ![p] = WhileRecv(p, running, websocket, pumps)]
  /\ UNCHANGED <<pollVars, sendVars>>
  /\ UNCHANGED <<agent_id, websocket, message_handlers, running, caller, conns, tokens,
                 calls, token_error, frames, registered, life, starts, stops>>

\* mutant: a frame that cannot be parsed ends the pump task
RecvMalformedEndsPump(p) ==
  /\ NoTaskReady
  /\ pumps[p].pc = "recv"
  /\ conns[pumps[p].conn] = "open"
  /\ pumps' = [pumps EXCEPT ![p].pc = "crashed", ![p].conn = None]
  /\ UNCHANGED <<pollVars, sendVars>>
  /\ UNCHANGED <<agent_id, websocket, message_handlers, running, caller, conns, tokens,
                 calls, token_error, frames, registered, life, starts, stops>>

\* recv() returns a frame json.loads or Message(**payload) rejects:
\* except Exception, sleep one second
RecvMalformed(p) ==
  /\ NoTaskReady
  /\ pumps[p].pc = "recv"
  /\ conns[pumps[p].conn] = "open"
  /\ pumps' = [pumps EXCEPT ![p].pc = "sleep1", ![p].conn = None]
  /\ UNCHANGED <<pollVars, sendVars>>
  /\ UNCHANGED <<agent_id, websocket, message_handlers, running, caller, conns, tokens,
                 calls, token_error, frames, registered, life, starts, stops>>

\* recv() returns a "message" frame: handle_message is called with it
RecvMessage(p) ==
  /\ NoTaskReady
  /\ pumps[p].pc = "recv"
  /\ conns[pumps[p].conn] = "open"
  /\ frames < MaxFrames
  /\ frames' = frames + 1
  /\ pumps' = [pumps EXCEPT
       ![p] = NextHandler(p, 0, [pumps EXCEPT ![p].msg = frames + 1, ![p].dirty = FALSE])]
  /\ UNCHANGED <<pollVars, sendVars>>
  /\ UNCHANGED <<agent_id, websocket, message_handlers, running, caller, conns, tokens,
                 calls, token_error, registered, life, starts, stops>>

\* the awaited handler returns: the for loop goes on
HandlerReturns(p) ==
  /\ NoTaskReady
  /\ pumps[p].pc = "handler"
  /\ pumps' = [pumps EXCEPT ![p] = NextHandler(p, pumps[p].idx, pumps)]
  /\ UNCHANGED <<pollVars, sendVars>>
  /\ UNCHANGED <<agent_id, websocket, message_handlers, running, caller, conns, tokens,
                 calls, token_error, frames, registered, life, starts, stops>>

\* the awaited handler raises: the except around the whole for loop catches
\* it, handle_message returns and the pump loops
HandlerRaises(p) ==
  /\ NoTaskReady
  /\ pumps[p].pc = "handler"
  /\ pumps' = [pumps EXCEPT ![p] = WhileRecv(p, running, websocket, pumps)]
  /\ UNCHANGED <<pollVars, sendVars>>
  /\ UNCHANGED <<agent_id, websocket, message_handlers, running, caller, conns, tokens,
                 calls, token_error, frames, registered, life, starts, stops>>

\* recv() raises ConnectionClosed: sleep five seconds
RecvClosed(p) ==
  /\ NoTaskReady
  /\ pumps[p].pc = "recv"
  /\ conns[pumps[p].conn] = "closed"
  /\ pumps' = [pumps EXCEPT ![p].pc = "sleep5", ![p].conn = None]
  /\ UNCHANGED <<pollVars, sendVars>>
  /\ UNCHANGED <<agent_id, websocket, message_handlers, running, caller, conns, tokens,
                 calls, token_error, frames, registered, life, starts, stops>>

\* the one-second sleep of the except Exception branch ends
Wake1(p) ==
  /\ NoTaskReady
  /\ pumps[p].pc = "sleep1"
  /\ pumps' = [pumps EXCEPT ![p] = WhileRecv(p, running, websocket, pumps)]
  /\ UNCHANGED <<pollVars, sendVars>>
  /\ UNCHANGED <<agent_id, websocket, message_handlers, running, caller, conns, tokens,
                 calls, token_error, frames, registered, life, starts, stops>>

\* the five-second sleep ends: _connect() is called, up to its first await
Wake5(p) ==
  /\ NoTaskReady
  /\ pumps[p].pc = "sleep5"
  /\ pumps' = [pumps EXCEPT ![p].pc = "connecting"]
  /\ UNCHANGED <<pollVars, sendVars>>
  /\ UNCHANGED <<agent_id, websocket, message_handlers, running, caller, conns, tokens,
                 calls, token_error, frames, registered, life, starts, stops>>

\* websockets.connect fails inside the pump's except branch: _connect
\* re-raises and nothing catches it, the task ends with the exception
PumpConnectFails(p) ==
  /\ NoTaskReady
  /\ pumps[p].pc = "connecting"
  /\ pumps' = [pumps EXCEPT ![p].pc = "crashed"]
  /\ UNCHANGED <<pollVars, sendVars>>
  /\ UNCHANGED <<agent_id, websocket, message_handlers, running, caller, conns, tokens,
                 calls, token_error, frames, registered, life, starts, stops>>

\* mutant: the reconnect does not send the register frame
PumpConnectOkNoRegister(p) ==
  /\ NoTaskReady
  /\ pumps[p].pc = "connecting"
  /\ HasFreeConn
  /\ HasFreePump
  /\ websocket' = FreeConn
  /\ conns' = [conns EXCEPT ![FreeConn] = "open"]
  /\ pumps' = [CreateTask(pumps) EXCEPT
                 ![p] = WhileRecv(p, running, FreeConn, CreateTask(pumps))]
  /\ UNCHANGED <<pollVars, sendVars>>
  /\ UNCHANGED <<agent_id, message_handlers, running, caller, tokens, calls, token_error,
                 frames, registered, life, starts, stops>>

\* websockets.connect succeeds inside the pump: as in start()
PumpConnectOk(p) ==
  /\ NoTaskReady
  /\ pumps[p].pc = "connecting"
  /\ HasFreeConn
  /\ HasFreePump
  /\ websocket' = FreeConn
  /\ conns' = [conns EXCEPT ![FreeConn] = "open"]
  /\ IF agent_id # None
     THEN pumps' = [pumps EXCEPT ![p].pc = "registering", ![p].conn = FreeConn]
     ELSE pumps' = [CreateTask(pumps) EXCEPT
                      ![p] = WhileRecv(p, running, FreeConn, CreateTask(pumps))]
  /\ UNCHANGED <<pollVars, sendVars>>
  /\ UNCHANGED <<agent_id, message_handlers, running, caller, tokens, calls, token_error,
                 frames, registered, life, starts, stops>>

\* the pump's register send completes
PumpRegisterDone(p) ==
  /\ NoTaskReady
  /\ pumps[p].pc = "registering"
  /\ IF conns[pumps[p].conn] = "open"
     THEN /\ registered' = [registered EXCEPT ![pumps[p].conn] = @ + 1]
          /\ pumps' = [CreateTask(pumps) EXCEPT
                         ![p] = WhileRecv(p, running, websocket, CreateTask(pumps))]
     ELSE /\ pumps' = [pumps EXCEPT ![p].pc = "crashed", ![p].conn = None]
          /\ UNCHANGED registered
  /\ UNCHANGED <<pollVars, sendVars>>
  /\ UNCHANGED <<agent_id, websocket, message_handlers, running, caller, conns, tokens,
                 calls, token_error, frames, life, starts, stops>>

\* the substrate or the network closes an open connection
Drop(c) ==
  /\ conns[c] = "open"
  /\ conns' = [conns EXCEPT ![c] = "closed"]
  /\ UNCHANGED <<pollVars, sendVars>>
  /\ UNCHANGED <<agent_id, websocket, message_handlers, running, caller, pumps, tokens,
                 calls, token_error, frames, registered, life, starts, stops>>

\* a pump that is inside handle_message sees the list change under its iterator
Touch(ps) ==
  [p \in Pumps |-> IF ps[p].pc = "handler" THEN [ps[p] EXCEPT !.dirty = TRUE] ELSE ps[p]]

\* on_message(handler): append, return the lambda that removes it
OnMessage(h) ==
  /\ Len(tokens) < MaxHandlers
  /\ message_handlers' = Append(message_handlers, h)
  /\ tokens' = Append(tokens, h)
  /\ calls' = Append(calls, 0)
  /\ pumps' = Touch(pumps)
  /\ UNCHANGED <<pollVars, sendVars>>
  /\ UNCHANGED <<agent_id, websocket, running, caller, conns, token_error, frames,
                 registered, life, starts, stops>>

\* a call of the lambda on_message returned: self._message_handlers.remove(handler),
\* which raises ValueError when the handler is not in the list
Unregister(t) ==
  /\ t \in 1..Len(tokens)
  /\ calls[t] < MaxCalls
  /\ calls' = [calls EXCEPT ![t] = @ + 1]
  /\ IF InList(message_handlers, tokens[t])
     THEN /\ message_handlers' = RemoveFirst(message_handlers, tokens[t])
          /\ token_error' = FALSE
          /\ pumps' = Touch(pumps)
     ELSE /\ token_error' = TRUE
          /\ UNCHANGED <<message_handlers, pumps>>
  /\ UNCHANGED <<pollVars, sendVars>>
  /\ UNCHANGED <<agent_id, websocket, running, caller, conns, tokens, frames,
                 registered, life, starts, stops>>

NodeNext ==
  \/ Start
  \/ StartConnectFails
  \/ StartConnectOk
  \/ StartRegisterDone
  \/ StopBegin
  \/ StopEnd
  \/ \E p \in Pumps : PumpStart(p)
  \/ \E p \in Pumps : RecvOther(p)
  \/ \E p \in Pumps : RecvMalformed(p)
  \/ \E p \in Pumps : RecvMessage(p)
  \/ \E p \in Pumps : HandlerReturns(p)
  \/ \E p \in Pumps : HandlerRaises(p)
  \/ \E p \in Pumps : RecvClosed(p)
  \/ \E p \in Pumps : Wake1(p)
  \/ \E p \in Pumps : Wake5(p)
  \/ \E p \in Pumps : PumpConnectFails(p)
  \/ \E p \in Pumps : PumpConnectOk(p)
  \/ \E p \in Pumps : PumpRegisterDone(p)
  \/ \E c \in Conns : Drop(c)
  \/ \E h \in Handlers : OnMessage(h)
  \/ \E t \in 1..MaxHandlers : Unregister(t)

\* ------------------------------------------------- NodeAgent.send_message

\* send_message up to its await: without a connection handle it raises
\* RuntimeError, otherwise the frame is handed to self._websocket.send
SendBegin ==
  /\ sender.pc = "idle"
  /\ sender.n < MaxSends
  /\ sender' = IF websocket = None
               THEN [sender EXCEPT !.result = "RuntimeError", !.n = @ + 1]
               ELSE [pc |-> "sending", conn |-> websocket, result |-> "none",
                     n |-> sender.n + 1]
  /\ UNCHANGED outbox
  /\ UNCHANGED <<nodeVars, pollVars>>

\* mutant: the except branch of send_message logs and does not re-raise
SendDoneSwallows ==
  /\ NoTaskReady
  /\ sender.pc = "sending"
  /\ IF conns[sender.conn] = "open"
     THEN /\ outbox' = outbox + 1
          /\ sender' = [sender EXCEPT !.pc = "idle", !.conn = None, !.result = "sent"]
     ELSE /\ sender' = [sender EXCEPT !.pc = "idle", !.conn = None, !.result = "none"]
          /\ UNCHANGED outbox
  /\ UNCHANGED <<nodeVars, pollVars>>

\* self._websocket.send completes: on a closed connection it raises, the
\* except branch logs and re-raises
SendDone ==
  /\ NoTaskReady
  /\ sender.pc = "sending"
  /\ IF conns[sender.conn] = "open"
     THEN /\ outbox' = outbox + 1
          /\ sender' = [sender EXCEPT !.pc = "idle", !.conn = None, !.result = "sent"]
     ELSE /\ sender' = [sender EXCEPT !.pc = "idle", !.conn = None,
                                      !.result = "ConnectionClosed"]
          /\ UNCHANGED outbox
  /\ UNCHANGED <<nodeVars, pollVars>>

\* the agent with no handler registered, and a caller of send_message
SendNext ==
  \/ Start
  \/ StartConnectFails
  \/ StartConnectOk
  \/ StartRegisterDone
  \/ StopBegin
  \/ StopEnd
  \/ \E p \in Pumps : PumpStart(p)
  \/ \E p \in Pumps : RecvOther(p)
  \/ \E p \in Pumps : RecvMalformed(p)
  \/ \E p \in Pumps : RecvMessage(p)
  \/ \E p \in Pumps : RecvClosed(p)
  \/ \E p \in Pumps : Wake1(p)
  \/ \E p \in Pumps : Wake5(p)
  \/ \E p \in Pumps : PumpConnectFails(p)
  \/ \E p \in Pumps : PumpConnectOk(p)
  \/ \E p \in Pumps : PumpRegisterDone(p)
  \/ \E c \in Conns : Drop(c)
  \/ SendBegin
  \/ SendDone

\* ============================================== MarketSentimentAgent (polling)

HistoryCap == 10   \* `if len(history) > 10`
TrimDrop   == 2    \* `history = history[2:]`

Peers      == {"p1", "p2"}
Missing    == "missing"     \* a record without the required from_agent_id field
Invalid    == [error |-> "ValidationError"]   \* Message(**record) raises
NoResponse == "none"
Reply      == "reply"       \* the completion's content (taken to be non-empty)
Fallback   == "Sorry, I encountered an error processing your message."
NoConversation == "null"    \* conversation_id: Optional[str] = None
NoError    == "none"
NoBody     == [toAgentId |-> "none", content |-> NoResponse, conversationId |-> NoConversation]

\* the _start_polling task: the await it is suspended at and its locals
\* (since: the query parameter of the GET in flight; messages, i: the batch and
\* the for loop's position; request: the messages array _process_message
\* built; response: what _process_message returned; body: the json of the
\* POST; error: the exception the cycle's except branch logged)
NoPoll == [pc |-> "none", since |-> 0, messages |-> <<>>, i |-> 0, request |-> <<>>,
           response |-> NoResponse, body |-> NoBody, error |-> NoError]

PollInit ==
  /\ conversation_history = [p \in {} |-> <<>>]
  /\ last_message_timestamp = 0
  /\ session = None
  /\ poll = NoPoll
  /\ store = <<>>
  /\ dispatched = [t \in 1..MaxMsgs |-> 0]
  /\ poll_starts = 0

Max(a, b) == IF a >= b THEN a ELSE b

\* Message(**record): from_agent_id and content are required fields
ParseMessage(rec) ==
  IF rec.from_agent_id = Missing
  THEN Invalid
  ELSE [from_agent_id |-> rec.from_agent_id, content |-> rec.content,
        conversation_id |-> rec.conversation_id, timestamp |-> rec.timestamp]

RECURSIVE Reverse(_)
Reverse(s) == IF s = <<>> THEN <<>> ELSE Append(Reverse(Tail(s)), Head(s))

RECURSIVE Newer(_, _)
\* GET /messages?since=w: the stored messages whose timestamp is greater than w
Newer(s, w) ==
  IF s = <<>> THEN <<>>
  ELSE IF Head(s).timestamp > w THEN <<Head(s)>> \o Newer(Tail(s), w)
  ELSE Newer(Tail(s), w)

UserTurn(msg)      == [role |-> "user", content |-> msg.content]
AssistantTurn(rsp) == [role |-> "assistant", content |-> rsp]

SystemTurn == [role |-> "system", content |-> "prompt"]

\* the messages array: the system prompt, the peer's history, the new user turn
Request(history, msg) == <<SystemTurn>> \o history \o <<UserTurn(msg)>>

\* the json of handle_message's POST
PostBody(msg, rsp) ==
  [toAgentId |-> msg.from_agent_id, content |-> rsp, conversationId |-> msg.conversation_id]

\* mutant: only the user turn is recorded
ExtendedUserOnly(history, msg, rsp) == Append(history, UserTurn(msg))

\* history.extend([...]) on the list object the dictionary holds
Extended(history, msg, rsp) == history \o <<UserTurn(msg), AssistantTurn(rsp)>>

\* `if len(history) > 10: history = history[2:]`: the value the local name
\* history is rebound to; the dictionary keeps the list object it had
TrimmedLocal(history) ==
  IF Len(history) > HistoryCap
  THEN SubSeq(history, TrimDrop + 1, Len(history))
  ELSE history

\* the list conversation_history[peer] holds when _process_message returns
\* after a completion: the extended list, whatever the local was rebound to
StoredAfter(history, msg, rsp) == Extended(history, msg, rsp)

\* mutant: the first access creates a history for every peer
GetOrInitAll(history, peer) ==
  [q \in DOMAIN history \cup Peers |-> IF q \in DOMAIN history THEN history[q] ELSE <<>>]

\* `if from_agent_id not in self.conversation_history: ...[from_agent_id] = []`
GetOrInit(history, peer) ==
  IF peer \in DOMAIN history
  THEN history
  ELSE [q \in DOMAIN history \cup {peer} |-> IF q = peer THEN <<>> ELSE history[q]]

\* The for loop of _start_polling after `i` records of `ms` were taken, up to
\* the next await: a record that fails to parse raises out of the loop into
\* `except Exception`, a parsed one enters handle_message and
\* _process_message, which creates the peer's history and sleeps 0.5 s
ForLoop(ms, i) ==
  IF i >= Len(ms)
  THEN /\ poll' = [NoPoll EXCEPT !.pc = "sleep", !.messages = ms, !.i = i]
       /\ UNCHANGED <<conversation_history, dispatched>>
  ELSE IF ParseMessage(ms[i + 1]) = Invalid
  THEN /\ poll' = [NoPoll EXCEPT !.pc = "sleep", !.messages = ms, !.i = i + 1,
                                   !.error = "ValidationError"]
       /\ UNCHANGED <<conversation_history, dispatched>>
  ELSE LET msg == ParseMessage(ms[i + 1])
           history == GetOrInit(conversation_history, msg.from_agent_id)
       IN
       /\ poll' = [NoPoll EXCEPT !.pc = "delay", !.messages = ms, !.i = i + 1,
                                 !.request = Request(history[msg.from_agent_id], msg)]
       /\ dispatched' = [dispatched EXCEPT ![msg.timestamp] = @ + 1]
       /\ conversation_history' = history

\* the message handle_message is working on
Current == ParseMessage(poll.messages[poll.i])

\* start(): a new ClientSession and a new _start_polling task
PollStart ==
  /\ poll.pc \in {"none", "cancelled"}
  /\ poll_starts < MaxPollStarts
  /\ poll_starts' = poll_starts + 1
  /\ session' = 1
  /\ poll' = [NoPoll EXCEPT !.pc = "new"]
  /\ UNCHANGED <<conversation_history, last_message_timestamp, store, dispatched>>
  /\ UNCHANGED <<nodeVars, sendVars>>

\* stop(): the task is cancelled at the await it is suspended at, the session
\* is closed and both fields are cleared. CancelledError derives from
\* BaseException (Python 3.8 and later), so no `except Exception` of the task
\* catches it; no code of the task runs between cancel() and its end.
PollStop ==
  /\ poll.pc \notin {"none", "cancelled"}
  /\ poll' = [NoPoll EXCEPT !.pc = "cancelled"]
  /\ session' = None
  /\ UNCHANGED <<conversation_history, last_message_timestamp, store, dispatched,
                 poll_starts>>
  /\ UNCHANGED <<nodeVars, sendVars>>

\* the task's first run, or the end of the five-second sleep: the GET is
\* issued with since = the watermark
PollRequest ==
  /\ poll.pc \in {"new", "sleep"}
  /\ poll' = IF session = None
             THEN [poll EXCEPT !.pc = "sleep"]
             ELSE [NoPoll EXCEPT !.pc = "get", !.since = last_message_timestamp]
  /\ UNCHANGED <<conversation_history, last_message_timestamp, session, store,
                 dispatched, poll_starts>>
  /\ UNCHANGED <<nodeVars, sendVars>>

\* mutant: a failed request ends the polling task
PollFailsEndsLoop ==
  /\ poll.pc = "get"
  /\ poll' = [NoPoll EXCEPT !.pc = "none", !.error = "ClientError"]
  /\ UNCHANGED <<conversation_history, last_message_timestamp, session, store,
                 dispatched, poll_starts>>
  /\ UNCHANGED <<nodeVars, sendVars>>

\* the request or response.json() raises: logged, the cycle is over
PollFails ==
  /\ poll.pc = "get"
  /\ poll' = [NoPoll EXCEPT !.pc = "sleep", !.error = "ClientError"]
  /\ UNCHANGED <<conversation_history, last_message_timestamp, session, store,
                 dispatched, poll_starts>>
  /\ UNCHANGED <<nodeVars, sendVars>>

\* the substrate answers with the messages newer than since, oldest or newest
\* first; the for loop starts
PollResponse(newestFirst) ==
  /\ poll.pc = "get"
  /\ LET batch == Newer(store, poll.since) IN
       ForLoop(IF newestFirst THEN Reverse(batch) ELSE batch, 0)
  /\ UNCHANGED <<last_message_timestamp, session, store, poll_starts>>
  /\ UNCHANGED <<nodeVars, sendVars>>

\* asyncio.sleep(0.5) ends: the completion is requested
DelayDone ==
  /\ poll.pc = "delay"
  /\ poll' = [poll EXCEPT !.pc = "openai"]
  /\ UNCHANGED <<conversation_history, last_message_timestamp, session, store,
                 dispatched, poll_starts>>
  /\ UNCHANGED <<nodeVars, sendVars>>

\* the completion arrives: the history is extended, the local is trimmed, the
\* response is returned to handle_message, which posts it
CompletionOk ==
  /\ poll.pc = "openai"
  /\ conversation_history' =
       [conversation_history EXCEPT ![Current.from_agent_id] = StoredAfter(@, Current, Reply)]
  /\ poll' = [poll EXCEPT !.pc = "post", !.response = Reply,
                          !.body = PostBody(Current, Reply)]
  /\ UNCHANGED <<last_message_timestamp, session, store, dispatched, poll_starts>>
  /\ UNCHANGED <<nodeVars, sendVars>>

\* mutant: the user turn is recorded although the completion failed
CompletionFailsRecordsTurn ==
  /\ poll.pc = "openai"
  /\ conversation_history' =
       [conversation_history EXCEPT ![Current.from_agent_id] = Append(@, UserTurn(Current))]
  /\ poll' = [poll EXCEPT !.pc = "post", !.response = Fallback,
                          !.body = PostBody(Current, Fallback)]
  /\ UNCHANGED <<last_message_timestamp, session, store, dispatched, poll_starts>>
  /\ UNCHANGED <<nodeVars, sendVars>>

\* the completion request raises: _process_message returns the fallback text,
\* which handle_message posts
CompletionFails ==
  /\ poll.pc = "openai"
  /\ poll' = [poll EXCEPT !.pc = "post", !.response = Fallback,
                          !.body = PostBody(Current, Fallback)]
  /\ UNCHANGED <<conversation_history, last_message_timestamp, session, store,
                 dispatched, poll_starts>>
  /\ UNCHANGED <<nodeVars, sendVars>>

\* the POST completes or raises (handle_message catches it): handle_message
\* returns, the watermark advances and the for loop goes on
PostDone ==
  /\ poll.pc = "post"
  /\ last_message_timestamp' = Max(last_message_timestamp, Current.timestamp)
  /\ ForLoop(poll.messages, poll.i)
  /\ UNCHANGED <<session, store, poll_starts>>
  /\ UNCHANGED <<nodeVars, sendVars>>

Malformed(s) == Cardinality({k \in 1..Len(s) : s[k].from_agent_id = Missing})

\* the conversation a stored message belongs to: every second message of the
\* substrate carries a conversation id, the others carry none
ConvOf(ts) == IF ts % 2 = 0 THEN "conv" ELSE NoConversation

\* the substrate stores a new message; its clock gives it the next timestamp
Arrive(from) ==
  /\ Len(store) < MaxMsgs
  /\ from = Missing => Malformed(store) < MaxMalformed
  /\ store' = Append(store, [from_agent_id |-> from, content |-> from,
                             conversation_id |-> ConvOf(Len(store) + 1),
                             timestamp |-> Len(store) + 1])
  /\ UNCHANGED <<conversation_history, last_message_timestamp, session, poll,
                 dispatched, poll_starts>>
  /\ UNCHANGED <<nodeVars, sendVars>>

PollNext ==
  \/ PollStart
  \/ PollStop
  \/ PollRequest
  \/ PollFails
  \/ \E newestFirst \in BOOLEAN : PollResponse(newestFirst)
  \/ DelayDone
  \/ CompletionOk
  \/ CompletionFails
  \/ PostDone
  \/ \E from \in Peers \cup {Missing} : Arrive(from)

Init == NodeInit /\ PollInit

InitPoll == Init /\ agent_id = None

SpecNode == Init /\ [][NodeNext]_vars

SpecPoll == InitPoll /\ [][PollNext]_vars

SpecSend == Init /\ [][SendNext]_vars

\* ================================================================== claims

\* C1: when handle_message returns for a message (and the handler list was not
\* changed while it ran), every registered handler has been invoked once,
\* whichever earlier handlers raised.
C1_EveryHandlerInvoked ==
  [][\A p \in Pumps :
       (/\ pumps[p].pc = "handler"
        /\ pumps'[p].pc # "handler"
        /\ ~pumps[p].dirty
        /\ message_handlers' = message_handlers)
       => pumps[p].idx = Len(message_handlers)]_vars

\* C2: once stop() has set the agent not running, and until start() is called
\* again, no pump begins a connect attempt.
C2_NoConnectAfterStop ==
  [][~running =>
       \A p \in Pumps : pumps'[p].pc = "connecting" => pumps[p].pc = "connecting"]_vars

\* C3: the stored history of every peer has at most HistoryCap turns.
C3_HistoryBounded ==
  \A p \in DOMAIN conversation_history : Len(conversation_history[p]) <= HistoryCap

\* C4: a second call of an unregister token raises nothing and leaves the
\* handler list as it was.
C4_SecondUnregisterNoOp ==
  [][\A t \in 1..Len(calls) :
       (calls[t] >= 1 /\ calls'[t] = calls[t] + 1)
       => (message_handlers' = message_handlers /\ ~token_error')]_vars

\* C5: while the agent is running, a failed reconnect attempt does not end the
\* pump task that made it.
C5_FailedReconnectKeepsPump ==
  [][running =>
       \A p \in Pumps : pumps'[p].pc = "crashed" => pumps[p].pc = "crashed"]_vars

\* C6: when a poll cycle ends, every well-formed record of the batch the
\* substrate returned in that cycle has been dispatched.
C6_WellFormedRecordsDispatched ==
  poll.pc = "sleep" =>
    \A k \in 1..Len(poll.messages) :
      ParseMessage(poll.messages[k]) # Invalid
        => dispatched[poll.messages[k].timestamp] >= 1

\* C7: a handle_message call that is executing (polling agent: suspended in
\* the delay, the completion request or the POST) is not cancelled by stop().
C7_StopDoesNotInterrupt ==
  [][poll.pc \in {"delay", "openai", "post"} => poll'.pc # "cancelled"]_vars

\* C8: at most one handle_message invocation of the agent is active at a time
\* (streaming agent: the pumps that are awaiting a handler).
C8_OneMessageInFlight ==
  Cardinality({p \in Pumps : pumps[p].pc = "handler"}) <= 1

\* the largest timestamp among the messages dispatched so far, 0 if none
MaxDispatched ==
  LET ts == {t \in 1..MaxMsgs : dispatched[t] > 0} IN
    IF ts = {} THEN 0 ELSE CHOOSE t \in ts : \A u \in ts : u <= t

\* C9: the watermark never decreases, and between poll cycles it is the
\* largest timestamp of any message dispatched so far.
C9_WatermarkIsMaxDispatched ==
  [][/\ last_message_timestamp' >= last_message_timestamp
     /\ poll'.pc = "sleep" => last_message_timestamp' = MaxDispatched']_vars

\* C10: no stored message is dispatched to handle_message more than once.
C10_DispatchedAtMostOnce ==
  \A t \in 1..MaxMsgs : dispatched[t] <= 1

\* C11: start() raises exactly when its connection attempt (the connect or the
\* register send) fails, and then no pump task is created; when it returns
\* normally a pump task was created; a failed reconnect attempt of a pump
\* raises nothing to the caller of start().
C11_StartRaisesIffAttemptFails ==
  [][/\ (caller.pc \in {"connecting", "registering"} /\ caller'.pc = "idle")
        => LET failed == IF caller.pc = "connecting"
                         THEN conns' = conns
                         ELSE conns[caller.conn] # "open"
           IN /\ life' = "failed" <=> failed
              /\ life' = "failed" => pumps' = pumps
              /\ life' # "failed" => (life' = "started" /\ pumps' # pumps)
     /\ (life' = "failed" /\ life # "failed")
        => caller.pc \in {"connecting", "registering"}]_vars

\* start() raised and no pump task exists
C11_Witness ==
  /\ life = "failed"
  /\ caller.pc = "idle"
  /\ \A p \in Pumps : pumps[p].pc = "none"

\* no connection handle, or a handle to a connection that is closed
NoLiveConnection == websocket = None \/ conns[websocket] # "open"

\* C12: a send_message call made while no live connection is established
\* raises to its caller and delivers no frame: at once when there is no handle,
\* at the end of its send when the handle names a closed connection (a closed
\* connection stays closed); nothing is sent later on its behalf.
C12_SendWithoutConnectionRaises ==
  [][/\ (sender'.n = sender.n + 1 /\ websocket = None)
        => (sender'.pc = "idle" /\ sender'.result = "RuntimeError" /\ outbox' = outbox)
     /\ (sender'.n = sender.n + 1 /\ websocket # None /\ NoLiveConnection)
        => (sender'.pc = "sending" /\ conns[sender'.conn] = "closed" /\ outbox' = outbox)
     /\ (sender.pc = "sending" /\ conns[sender.conn] = "closed")
        => /\ conns'[sender.conn] = "closed"
           /\ outbox' = outbox
           /\ \/ sender'.pc = "sending"
              \/ (sender'.pc = "idle" /\ sender'.result = "ConnectionClosed")
     /\ outbox' # outbox
        => (sender.pc = "sending" /\ conns[sender.conn] = "open")]_vars

\* send_message raised between a connection drop and a reconnect
C12_Witness ==
  /\ sender.result = "ConnectionClosed"
  /\ websocket # None
  /\ conns[websocket] = "closed"
  /\ running
  /\ life = "started"

\* C13: after one successful start() and a single connection drop, with no
\* stop() and no further start(), the step that completes the pump's
\* reconnect leaves the agent connected again: self._websocket names a newly
\* opened connection, the register frame was sent on it exactly once when an
\* agent id is configured, and a pump is waiting in recv() on it; and every
\* dispatch that begins is for a frame recv() has just returned, never for a
\* frame that was dispatched before.
DroppedOnce == Cardinality({c \in Conns : conns[c] = "closed"}) = 1

C13_ReconnectsAfterOneDrop ==
  [][/\ \A p \in Pumps :
          (/\ starts = 1 /\ stops = 0 /\ DroppedOnce'
           /\ pumps[p].pc \in {"connecting", "registering"}
           /\ pumps'[p].pc \notin {"connecting", "registering", "crashed"})
          => /\ websocket' # None
             /\ conns'[websocket'] = "open"
             /\ conns[websocket'] = IF pumps[p].pc = "connecting" THEN "unopened" ELSE "open"
             /\ agent_id # None => registered'[websocket'] = 1
             /\ agent_id = None => registered'[websocket'] = 0
             /\ \E q \in Pumps : pumps'[q].pc = "recv" /\ pumps'[q].conn = websocket'
             /\ starts' = 1
     /\ \A p \in Pumps :
          (pumps'[p].pc = "handler" /\ pumps[p].pc # "handler")
          => (frames' = frames + 1 /\ pumps'[p].msg = frames')]_vars

C13_Witness ==
  /\ starts = 1 /\ stops = 0 /\ DroppedOnce
  /\ agent_id # None
  /\ websocket # None /\ conns[websocket] = "open" /\ registered[websocket] = 1
  /\ \E c \in Conns : conns[c] = "closed" /\ registered[c] = 1
  /\ \E q \in Pumps : pumps[q].pc = "recv" /\ pumps[q].conn = websocket
  /\ \E q \in Pumps : pumps[q].pc = "handler" /\ pumps[q].msg = 2

\* C14: a per-message error other than a closed connection does not end the
\* pump.  A pump waiting in recv(), inside a handler or in the one-second
\* backoff never ends with an exception in its next step; it leaves the loop
\* only because the loop condition is false (stop() cleared _running or the
\* handle); it takes the reconnect path only when recv() found the connection
\* closed; and when the backoff ends with the loop condition true the pump
\* calls recv() again on the current connection (or backs off again when
\* another task is already waiting in recv() on it).
C14_PerMessageErrorKeepsPump ==
  [][\A p \in Pumps :
       (pumps[p].pc \in {"recv", "handler", "sleep1"} /\ pumps'[p] # pumps[p])
       => /\ pumps'[p].pc \in {"recv", "handler", "sleep1", "sleep5", "done"}
          /\ pumps'[p].pc = "done" => (~running \/ websocket = None)
          /\ pumps'[p].pc = "sleep5"
             => (pumps[p].pc = "recv" /\ conns[pumps[p].conn] = "closed")
          /\ (pumps[p].pc = "sleep1" /\ running /\ websocket # None)
             => \/ pumps'[p].pc = "recv" /\ pumps'[p].conn = websocket
                \/ /\ pumps'[p].pc = "sleep1"
                   /\ \E q \in Pumps : q # p /\ pumps[q].pc = "recv" /\ pumps[q].conn = websocket]_vars

\* the only pump there is backs off after a frame it could not parse, after
\* having dispatched an earlier frame, on a connection that is still open
C14_Witness ==
  /\ running /\ websocket # None /\ conns[websocket] = "open"
  /\ frames >= 1
  /\ \E p \in Pumps : /\ pumps[p].pc = "sleep1"
                      /\ \A q \in Pumps : q # p => pumps[q].pc = "none"

\* C15: when handle_message returns for a message that was dispatched after the
\* unregister token of a handler H had been called, so that H is no longer in
\* the list (each token called at most once, and no registration or
\* unregistration while the dispatch ran), the handlers that were invoked are
\* exactly the handlers of the registrations whose token was not called, in
\* registration order: H is skipped and every other handler is invoked.
RECURSIVE StillRegistered(_)
StillRegistered(n) ==
  IF n = 0 THEN <<>>
  ELSE IF calls[n] = 0 THEN Append(StillRegistered(n - 1), tokens[n])
  ELSE StillRegistered(n - 1)

C15_UnregisteredSkippedOthersInvoked ==
  [][\A p \in Pumps :
       (/\ pumps[p].pc = "handler"
        /\ pumps'[p].pc # "handler"
        /\ ~pumps[p].dirty
        /\ message_handlers' = message_handlers
        /\ \A t \in 1..Len(tokens) : calls[t] <= 1
        /\ \E t \in 1..Len(tokens) :
              calls[t] = 1 /\ ~InList(message_handlers, tokens[t]))
       => SubSeq(message_handlers, 1, pumps[p].idx) = StillRegistered(Len(tokens))]_vars

\* C19: in every reachable state at most one _handle_messages task is alive
\* (created and neither returned nor ended by an exception) and at most one
\* connection the agent opened is open.
LivePumps == {p \in Pumps : pumps[p].pc \notin {"none", "done", "crashed"}}

C19_OnePumpOneConnection ==
  /\ Cardinality(LivePumps) <= 1
  /\ Cardinality({c \in Conns : conns[c] = "open"}) <= 1

\* C16: a failure of the poll request itself leaves the watermark, every
\* conversation history and the dispatch counts unchanged, does not end the
\* polling task (it sleeps; only stop() ends it), and after the sleep the next
\* GET is issued with the same since value as the failed one.
C16_FailedPollSkipsCycle ==
  [][/\ (poll.pc = "get" /\ poll' # poll)
        => poll'.pc \in {"sleep", "delay", "cancelled"}
     /\ (poll.pc = "get" /\ poll'.error = "ClientError")
        => /\ poll'.pc = "sleep"
           /\ last_message_timestamp' = poll.since
           /\ last_message_timestamp' = last_message_timestamp
           /\ conversation_history' = conversation_history
           /\ dispatched' = dispatched
     /\ (poll.pc = "sleep" /\ poll.error = "ClientError")
        => /\ last_message_timestamp' = last_message_timestamp
           /\ conversation_history' = conversation_history
           /\ dispatched' = dispatched
           /\ poll' # poll
              => \/ poll'.pc = "cancelled"
                 \/ poll'.pc = "get" /\ poll'.since = last_message_timestamp]_vars

\* the cycle was skipped after a failed request although messages newer than
\* the watermark are stored, and earlier messages had been handled
C16_Witness ==
  /\ poll.pc = "sleep"
  /\ poll.error = "ClientError"
  /\ last_message_timestamp > 0
  /\ Newer(store, last_message_timestamp) # <<>>

\* C17: processing a message from peer p touches p's history only.  A peer's
\* history changes only when the completion for a message of that peer
\* arrives; a new history is created only when a message of an unseen peer
\* starts to be processed, empty and for that peer only; every history holds
\* user turns of its own peer only; and the messages array built for the
\* responder is the system prompt, p's stored history and the new user turn.
OwnTurnsOnly(history) ==
  \A q \in DOMAIN history : \A k \in 1..Len(history[q]) :
    history[q][k].role = "user" => history[q][k].content = q

C17_PeerIsolation ==
  [][/\ \A q \in DOMAIN conversation_history :
          /\ q \in DOMAIN conversation_history'
          /\ conversation_history'[q] # conversation_history[q]
             => (poll.pc = "openai" /\ Current.from_agent_id = q)
     /\ DOMAIN conversation_history' # DOMAIN conversation_history
        => /\ poll'.pc = "delay"
           /\ DOMAIN conversation_history' =
                DOMAIN conversation_history \cup {Current'.from_agent_id}
           /\ conversation_history'[Current'.from_agent_id] = <<>>
     /\ OwnTurnsOnly(conversation_history')
     /\ poll'.pc \in {"delay", "openai"}
        => /\ poll'.request = <<SystemTurn>>
                                \o conversation_history'[Current'.from_agent_id]
                                \o <<UserTurn(Current')>>
           /\ \A k \in 1..Len(poll'.request) :
                poll'.request[k].role = "user"
                => poll'.request[k].content = Current'.from_agent_id]_vars

\* both peers have a history with turns, and a further message is with the
\* responder together with its peer's earlier turns
C17_Witness ==
  /\ DOMAIN conversation_history = Peers
  /\ \A q \in Peers : Len(conversation_history[q]) >= 2
  /\ poll.pc = "openai"
  /\ Len(poll.request) >= 4

\* C18: every stored history has even length and alternates user, assistant,
\* user, assistant, ... starting with a user turn.
C18_HistoryAlternates ==
  \A q \in DOMAIN conversation_history :
    LET h == conversation_history[q] IN
      /\ Len(h) % 2 = 0
      /\ \A k \in 1..Len(h) :
           h[k].role = IF k % 2 = 1 THEN "user" ELSE "assistant"

\* a history for which the trimming branch (more than HistoryCap turns) ran
C18_Witness ==
  \E q \in DOMAIN conversation_history : Len(conversation_history[q]) > HistoryCap

\* C20: when the completion request fails for a message of peer p, p's history
\* stays what it was when processing began (no turn is appended, then or
\* while the reply is posted), the POST carries the fallback text, p as the
\* addressee and the conversation id the substrate stored with the message,
\* and when handle_message returns the watermark is at least the message's
\* timestamp (the maximum of the two).
C20_FallbackOnResponderFailure ==
  [][/\ (poll.pc = "openai" /\ poll'.pc = "post" /\ poll'.response = Fallback)
        => /\ conversation_history' = conversation_history
           /\ conversation_history'[Current.from_agent_id]
                = SubSeq(poll.request, 2, Len(poll.request) - 1)
           /\ poll'.body = [toAgentId |-> store[Current.timestamp].from_agent_id,
                            content |-> Fallback,
                            conversationId |-> store[Current.timestamp].conversation_id]
     /\ (poll.pc = "post" /\ poll.response = Fallback)
        => /\ conversation_history'[Current.from_agent_id]
                = conversation_history[Current.from_agent_id]
           /\ poll'.pc \notin {"post", "cancelled"}
              => /\ last_message_timestamp' = Max(last_message_timestamp, Current.timestamp)
                 /\ last_message_timestamp' >= Current.timestamp]_vars

\* the fallback is being posted for a message that carries a conversation id,
\* from a peer that has earlier turns, and the watermark is still behind it
C20_Witness ==
  /\ poll.pc = "post"
  /\ poll.response = Fallback
  /\ poll.body.conversationId # NoConversation
  /\ Len(conversation_history[Current.from_agent_id]) >= 2
  /\ last_message_timestamp < Current.timestamp

====
